---- MODULE Spec2Model ----
(***************************************************************************)
(* A model of the geocoin game of src/src/main.ts and of the flyweight     *)
(* grid of src/src/board.ts.                                               *)
(*                                                                         *)
(* Representation.                                                         *)
(*  - A JavaScript string that holds JSON is a sequence of string tokens   *)
(*    whose concatenation is the text: "{", "}", "[", "]", ":", ",", a     *)
(*    quote at some escape depth, a name, or the decimal text of a number. *)
(*    JSON.stringify writes the tokens and JSON.parse reads them back.     *)
(*  - Latitudes and longitudes are integers in units of half a tile, so    *)
(*    that Math.floor(lat / tileWidth) is a real floor division.           *)
(*  - luck() returns hundredths (the numerator of a value in [0,1)).       *)
(*  - An operator that the source computes once and reads several times    *)
(*    is passed on as a parameter of a helper operator.                    *)
(***************************************************************************)
EXTENDS Integers, Sequences, FiniteSets, TLC

VARIABLES
    playerLocation,   \* main.ts:98   let playerLocation
    playerCoins,      \* main.ts:105  let playerCoins: Coin[]
    geocacheArr,      \* main.ts:121  const geocacheArr: Geocache[]
    momentoArr,       \* main.ts:122  let momentoArr: string[]
    cacheIconArray,   \* main.ts:109  the markers on the map, each with the cache its popup closes over
    localStorage,     \* the browser's localStorage
    watching,         \* map.locate({watch: true}) has been called (main.ts:153)
    lastEvent,        \* the handler that ran last and what its transfer returned
    lastHeld,         \* history: per cell, the displayed cache as the last successful transfer on it left it
    call,             \* one call of a function of main.ts or board.ts: its arguments and result
    board             \* one Board of board.ts and what its callers hold

vars == <<playerLocation, playerCoins, geocacheArr, momentoArr, cacheIconArray,
          localStorage, watching, lastEvent, lastHeld, call, board>>
gameVars == <<playerLocation, playerCoins, geocacheArr, momentoArr, cacheIconArray,
              localStorage, watching, lastEvent, lastHeld>>

-----------------------------------------------------------------------------
(* Bounds of the model *)

\* The player stays within MaxStep tiles north or south of the start
MaxStep == 1
\* and within MaxDrift position units (half tiles) east or west of it.
MaxDrift == 1
\* No coin array of the game grows beyond MaxCoins coins.
MaxCoins == 2
\* Arguments of the function-level calls: arrays of at most MaxLen coins.
MaxLen == 2
\* Largest amount passed to transferCoins in the function-level calls.
MaxAmt == 2
\* Visibility radius of the Board of the function-level calls.
MaxRadius == 1

-----------------------------------------------------------------------------
(* Sequence helpers *)

Last(s) == s[Len(s)]
Front(s) == SubSeq(s, 1, Len(s) - 1)
\* Array.prototype.splice(idx, 1) with a 1-based index
RemoveAt(s, idx) == SubSeq(s, 1, idx - 1) \o SubSeq(s, idx + 1, Len(s))
Range(s) == {s[k] : k \in 1..Len(s)}
Count(s, x) == Cardinality({k \in 1..Len(s) : s[k] = x})

RECURSIVE SeqsUpTo(_, _)
\* The sequences over S of length at most n
SeqsUpTo(S, n) ==
    IF n = 0 THEN {<<>>}
    ELSE SeqsUpTo(S, n - 1) \cup {Append(s, x) : s \in SeqsUpTo(S, n - 1), x \in S}

RECURSIVE Flatten(_)
Flatten(ss) == IF ss = <<>> THEN <<>> ELSE Head(ss) \o Flatten(Tail(ss))

-----------------------------------------------------------------------------
(* JSON.stringify and JSON.parse on token sequences *)

\* The quote character at escape depth 0, 1, 2, 3: " \" \\\" \\\\\\\"
Q == "\""
Q1 == "\\\""
Q2 == "\\\\\\\""
Q3 == "\\\\\\\\\\\\\\\""

\* What JSON.stringify makes of one token inside a string: quotes and backslashes escaped
Esc(tok) ==
    CASE tok = Q -> Q1
      [] tok = Q1 -> Q2
      [] tok = Q2 -> Q3
      [] OTHER -> tok

\* What JSON.parse makes of one token inside a string
Unesc(tok) ==
    CASE tok = Q1 -> Q
      [] tok = Q2 -> Q1
      [] tok = Q3 -> Q2
      [] OTHER -> tok

\* The numbers the model writes and reads
NumRange == -(2 * MaxStep + 12)..(2 * MaxStep + 12)
\* Number.prototype.toString and the number a decimal text denotes
NumToStr(n) == ToString(n)
NumTexts == [n \in NumRange |-> ToString(n)]
StrToNum(s) == CHOOSE n \in NumRange : NumTexts[n] = s

StringifyString(s) == <<Q>> \o [k \in 1..Len(s) |-> Esc(s[k])] \o <<Q>>
Member(name, text) == <<Q, name, Q, ":">> \o text

RECURSIVE JoinComma(_)
JoinComma(texts) ==
    IF texts = <<>> THEN <<>>
    ELSE IF Len(texts) = 1 THEN texts[1]
    ELSE texts[1] \o <<",">> \o JoinComma(Tail(texts))

StringifyArray(texts) == <<"[">> \o JoinComma(texts) \o <<"]">>
StringifyObject(members) == <<"{">> \o JoinComma(members) \o <<"}">>

\* JSON.stringify of a Coin {i, j, serial}
StringifyCoin(c) ==
    StringifyObject(<<Member("i", <<NumToStr(c.i)>>),
                      Member("j", <<NumToStr(c.j)>>),
                      Member("serial", <<NumToStr(c.serial)>>)>>)

\* JSON.stringify of a Coin[]
StringifyCoins(coins) == StringifyArray([k \in 1..Len(coins) |-> StringifyCoin(coins[k])])

\* The closing quote of the string that opens at position p
StringEnd(t, p) == CHOOSE e \in (p + 1)..Len(t) : t[e] = Q /\ \A k \in (p + 1)..(e - 1) : t[k] # Q

\* The string between the quotes at p and e, unescaped, and the position after it
StringBetween(t, p, e) == [v |-> <<>> \o [k \in 1..(e - p - 1) |-> Unesc(t[p + k])], n |-> e + 1]
ParseString(t, p) == StringBetween(t, p, StringEnd(t, p))

RECURSIVE ParseValue(_, _), ParseMembers(_, _, _), MemberValue(_, _, _), NextMember(_, _, _, _),
          ParseElements(_, _, _), NextElement(_, _, _)
\* The value that starts at position p of text t, and the position after it.
\* A number is an integer, a string a token sequence, an array a sequence,
\* an object a function from its member names.
ParseValue(t, p) ==
    IF t[p] = "{" THEN
        IF t[p + 1] = "}" THEN [v |-> <<>>, n |-> p + 2] ELSE ParseMembers(t, p + 1, <<>>)
    ELSE IF t[p] = "[" THEN
        IF t[p + 1] = "]" THEN [v |-> <<>>, n |-> p + 2] ELSE ParseElements(t, p + 1, <<>>)
    ELSE IF t[p] = Q THEN ParseString(t, p)
    ELSE [v |-> StrToNum(t[p]), n |-> p + 1]

\* The members of an object from position p on, added to acc
ParseMembers(t, p, acc) == MemberValue(t, ParseString(t, p), acc)
MemberValue(t, key, acc) == NextMember(t, key.v[1], ParseValue(t, key.n + 1), acc)
NextMember(t, name, val, acc) ==
    IF t[val.n] = "," THEN ParseMembers(t, val.n + 1, (name :> val.v) @@ acc)
    ELSE [v |-> (name :> val.v) @@ acc, n |-> val.n + 1]

\* The elements of an array from position p on, added to acc
ParseElements(t, p, acc) == NextElement(t, ParseValue(t, p), acc)
NextElement(t, val, acc) ==
    IF t[val.n] = "," THEN ParseElements(t, val.n + 1, Append(acc, val.v))
    ELSE [v |-> Append(acc, val.v), n |-> val.n + 1]

JSONparse(t) == ParseValue(t, 1).v

-----------------------------------------------------------------------------
(* Program constants (main.ts:19-27), in the units of the model *)

\* TILE_DEGREES = 1e-4 degrees: one tile is two position units
TILE_DEGREES == 2
\* NEIGHBORHOOD_SIZE = 8
NEIGHBORHOOD_SIZE == 8
\* CACHE_SPAWN_PROBABILITY = 0.1, in hundredths
CACHE_SPAWN_PROBABILITY == 10
\* luck() is a value in [0,1) given as a numerator over LuckScale
LuckScale == 100

\* leaflet.latLng(lat, lng)
latLng(lat, lng) == [lat |-> lat, lng |-> lng]

\* OAKES_CLASSROOM = latLng(36.98949379578401, -122.06277128548504): a point
\* inside its tile (not on a corner), with a negative longitude
OAKES_CLASSROOM == latLng(1, -1)

\* [a, b].toString() and [a, b, "initialValue"].toString()
KeyOf(i, j) == NumToStr(i) \o "," \o NumToStr(j)
InitialValueKeyOf(i, j) == NumToStr(i) \o "," \o NumToStr(j) \o "," \o "initialValue"

\* luck.ts is not among the sources: a deterministic function of the key into
\* [0,1), here in hundredths.  Two cells near the start are lucky: (8,-1),
\* whose cache starts with 1 coin, and (-9,-1), whose cache starts empty.
luck(key) ==
    CASE key = "8,-1" -> 3
      [] key = "-9,-1" -> 7
      [] key = "8,-1,initialValue" -> 1
      [] key = "-9,-1,initialValue" -> 0
      [] OTHER -> 50

-----------------------------------------------------------------------------
(* board.ts: class Board.  knownCells, a Map, is the sequence of its        *)
(* entries in insertion order; a cell object is its fields and its         *)
(* identity id.                                                            *)

CellObject(id, i, j) == [id |-> id, i |-> i, j |-> j]

\* An identity no live object has: not in the table, not held by a caller
FreshId(knownCells, held) ==
    CHOOSE n \in 1..(Len(knownCells) + Cardinality(held) + 1) :
        /\ \A k \in 1..Len(knownCells) : knownCells[k].cell.id # n
        /\ \A c \in held : c.id # n

\* Map.has, Map.get, Map.set
MapHas(entries, key) == \E k \in 1..Len(entries) : entries[k].key = key
MapGet(entries, key) == entries[CHOOSE k \in 1..Len(entries) : entries[k].key = key].cell
MapSet(entries, key, cell) ==
    IF MapHas(entries, key)
    THEN <<>> \o [k \in 1..Len(entries) |->
                     IF entries[k].key = key THEN [key |-> key, cell |-> cell] ELSE entries[k]]
    ELSE Append(entries, [key |-> key, cell |-> cell])

\* A mutant of getCanonicalCell: the cell is set whether or not the table has the key
getCanonicalCellAlwaysSet(knownCells, cell) ==
    [knownCells |-> MapSet(knownCells, KeyOf(cell.i, cell.j), cell), cell |-> cell]

\* Board.getCanonicalCell (board.ts:19-28): the table after the call and the cell returned
getCanonicalCell(knownCells, cell) ==
    IF ~MapHas(knownCells, KeyOf(cell.i, cell.j))
    THEN [knownCells |-> MapSet(knownCells, KeyOf(cell.i, cell.j), cell), cell |-> cell]
    ELSE [knownCells |-> knownCells, cell |-> MapGet(knownCells, KeyOf(cell.i, cell.j))]

\* Board.getCellForPoint (board.ts:30-37)
getCellForPoint(tileWidth, knownCells, held, point) ==
    getCanonicalCell(knownCells,
                     CellObject(FreshId(knownCells, held),
                                point.lat \div tileWidth,
                                point.lng \div tileWidth))

\* Board.getCellBounds (board.ts:39-45): leaflet.latLng(leaflet.latLng(a, b)) is latLng(a, b)
getCellBounds(tileWidth, cell) == latLng(cell.i * tileWidth, cell.j * tileWidth)

\* The (c, r) pairs the two nested loops of getCellsNearPoint visit, in order (board.ts:50-59)
LoopOffsets(radius) ==
    [k \in 1..((2 * radius + 1) * (2 * radius + 1)) |->
        [c |-> ((k - 1) \div (2 * radius + 1)) - radius, r |-> ((k - 1) % (2 * radius + 1)) - radius]]

\* The i and j of the cells getCellsNearPoint returns (board.ts:61-64), in order
NearLiterals(tileWidth, tileVisibilityRadius, point) ==
    [k \in 1..((2 * tileVisibilityRadius + 1) * (2 * tileVisibilityRadius + 1)) |->
        [i |-> (point.lat \div tileWidth) + LoopOffsets(tileVisibilityRadius)[k].c,
         j |-> (point.lng \div tileWidth) + LoopOffsets(tileVisibilityRadius)[k].r]]

\* resultCells.push(this.getCanonicalCell({i, j})) and r++ (board.ts:57-66)
PushCanonical(st, got) ==
    [knownCells |-> got.knownCells, cells |-> Append(st.cells, got.cell), c |-> st.c, r |-> st.r + 1]

RECURSIVE ColumnLoop(_, _, _, _), RowLoop(_, _, _, _)
\* A mutant of the inner loop: c and r are swapped in the cell asked for
RowLoopSwapped(originCell, held, radius, st) ==
    IF st.r > radius THEN st
    ELSE RowLoop(originCell, held, radius,
                 PushCanonical(st,
                               getCanonicalCell(st.knownCells,
                                                CellObject(FreshId(st.knownCells, held \cup Range(st.cells)),
                                                           originCell.i + st.r, originCell.j + st.c))))
\* The inner loop of getCellsNearPoint (board.ts:55-67); st has the table, resultCells, c and r
RowLoop(originCell, held, radius, st) ==
    IF st.r > radius THEN st
    ELSE RowLoop(originCell, held, radius,
                 PushCanonical(st,
                               getCanonicalCell(st.knownCells,
                                                CellObject(FreshId(st.knownCells, held \cup Range(st.cells)),
                                                           originCell.i + st.c, originCell.j + st.r))))
\* c++ after the inner loop (board.ts:53)
NextColumn(st) == [st EXCEPT !.c = @ + 1]
\* The outer loop of getCellsNearPoint (board.ts:50-68)
ColumnLoop(originCell, held, radius, st) ==
    IF st.c > radius THEN st
    ELSE ColumnLoop(originCell, held, radius,
                    NextColumn(RowLoop(originCell, held, radius, [st EXCEPT !.r = -radius])))

\* getCellsNearPoint once the origin cell is known
NearOrigin(tileVisibilityRadius, held, origin) ==
    ColumnLoop(origin.cell, held \cup {origin.cell}, tileVisibilityRadius,
               [knownCells |-> origin.knownCells, cells |-> <<>>,
                c |-> -tileVisibilityRadius, r |-> -tileVisibilityRadius])

\* Board.getCellsNearPoint (board.ts:47-69): the table after the call and the cells returned
getCellsNearPoint(tileWidth, tileVisibilityRadius, knownCells, held, point) ==
    NearOrigin(tileVisibilityRadius, held, getCellForPoint(tileWidth, knownCells, held, point))

-----------------------------------------------------------------------------
(* main.ts: class Geocache *)

\* new Geocache() (main.ts:67-72)
NewGeocache == [i |-> 0, j |-> 1, coins |-> <<>>]

\* Geocache.toMomento (main.ts:73-76): the coins are stringified, and that string is a member of the object
toMomento(cache) ==
    StringifyObject(<<Member("i", <<NumToStr(cache.i)>>),
                      Member("j", <<NumToStr(cache.j)>>),
                      Member("coins", StringifyString(StringifyCoins(cache.coins)))>>)

\* The loop of fromMomento (main.ts:84-90): one coin pushed per parsed coin
PushParsedCoins(coins, parsedCoins) ==
    coins \o [k \in 1..Len(parsedCoins) |->
                 [i |-> parsedCoins[k].i, j |-> parsedCoins[k].j, serial |-> parsedCoins[k].serial]]

\* A mutant of fromMomento: this.coins is not emptied first
FromParsedNoClear(self, parsedObj) ==
    [i |-> parsedObj.i, j |-> parsedObj.j, coins |-> PushParsedCoins(self.coins, JSONparse(parsedObj.coins))]

\* fromMomento once the momento is parsed (main.ts:80-90)
FromParsed(self, parsedObj) ==
    [i |-> parsedObj.i, j |-> parsedObj.j,
     coins |-> PushParsedCoins(SubSeq(self.coins, 1, 0), JSONparse(parsedObj.coins))]

\* Geocache.fromMomento (main.ts:78-91): the receiver after the call
fromMomento(self, momento) == FromParsed(self, JSONparse(momento))

-----------------------------------------------------------------------------
(* main.ts: coins and caches *)

\* What Array.prototype.pop returns on an empty array, and null
undefined == [undefined |-> TRUE]
null == [null |-> TRUE]

\* geocacheArr.push(cache) (main.ts:242) and the return (main.ts:252): the array holds the object
\* the loop fills, so the pushed cache has the coins of the returned one
PushAndReturn(caches, cache) == [ret |-> cache, geocacheArr |-> Append(caches, cache)]

\* A mutant of instantiateCache: the serials start at 1
instantiateCacheFromOne(caches, i, j) ==
    PushAndReturn(caches,
        [i |-> i, j |-> j,
         coins |-> <<>> \o [k \in 1..((luck(InitialValueKeyOf(i, j)) * 100) \div LuckScale) |->
                               [i |-> i, j |-> j, serial |-> k]]])

\* instantiateCache (main.ts:237-253) on geocacheArr = caches: the cache returned and
\* geocacheArr after the push
instantiateCache(caches, i, j) ==
    PushAndReturn(caches,
        [i |-> i, j |-> j,
         coins |-> <<>> \o [k \in 1..((luck(InitialValueKeyOf(i, j)) * 100) \div LuckScale) |->
                               [i |-> i, j |-> j, serial |-> k - 1]]])

\* sender.pop(): the element returned and the array left
Pop(arr) == IF arr = <<>> THEN [ret |-> undefined, arr |-> arr] ELSE [ret |-> Last(arr), arr |-> Front(arr)]

\* A mutant of transferCoins: sender.shift() for sender.pop(), the first coin moves
transferCoinsShift(sender, reciever, amt) ==
    IF Len(sender) >= amt /\ sender # <<>>
    THEN [ret |-> Head(sender), sender |-> Tail(sender), reciever |-> Append(reciever, Head(sender))]
    ELSE [ret |-> null, sender |-> sender, reciever |-> reciever]

\* A mutant of transferCoins: the guard is dropped
transferCoinsNoGuard(sender, reciever, amt) ==
    [ret |-> Pop(sender).ret, sender |-> Pop(sender).arr, reciever |-> Append(reciever, Pop(sender).ret)]

\* transferCoins (main.ts:258-266): what it returns and the two arrays after the call
transferCoins(sender, reciever, amt) ==
    IF Len(sender) >= amt
    THEN [ret |-> Pop(sender).ret, sender |-> Pop(sender).arr, reciever |-> Append(reciever, Pop(sender).ret)]
    ELSE [ret |-> null, sender |-> sender, reciever |-> reciever]

\* if (transferred): a coin object is truthy, null and undefined are not
Truthy(ret) == ret # null /\ ret # undefined

-----------------------------------------------------------------------------
(* main.ts: the momento array *)

IsCell(parsedObj, i, j) == parsedObj.i = i /\ parsedObj.j = j
FirstOf(hits) == IF hits = {} THEN 0 ELSE CHOOSE m \in hits : \A h \in hits : m <= h

\* searchMomento (main.ts:326-337): the 1-based index of the first momento of cell (i,j), 0 for null
searchMomento(arr, i, j) == FirstOf({m \in 1..Len(arr) : IsCell(JSONparse(arr[m]), i, j)})

\* momentoArr.splice(momentoIdx, 1) if momentoIdx is not null (main.ts:343-345)
SpliceFound(arr, momentoIdx) == IF momentoIdx # 0 THEN RemoveAt(arr, momentoIdx) ELSE arr

\* A mutant of appendToMomento: the old momento is not removed
appendToMomentoNoSplice(arr, cache) == Append(arr, toMomento(cache))

\* appendToMomento (main.ts:340-349)
appendToMomento(arr, cache) ==
    Append(SpliceFound(arr, searchMomento(arr, cache.i, cache.j)), toMomento(cache))

RECURSIVE AppendAll(_, _)
\* The loop of updateMomento (main.ts:352-354)
AppendAll(arr, caches) ==
    IF caches = <<>> THEN arr ELSE AppendAll(appendToMomento(arr, Head(caches)), Tail(caches))

-----------------------------------------------------------------------------
(* main.ts: persistent storage.  localStorage is a record of the texts     *)
(* under "momento data" (momento), "Player Location" (location) and        *)
(* "Player Coins" (coins); an item that is not set reads as null, here the *)
(* empty text.                                                             *)

\* localStorage.clear()
NoStorage == [momento |-> <<>>, location |-> <<>>, coins |-> <<>>]
\* if (localStorage.getItem(key)): null is falsy, and so is the empty string
hasItem(text) == text # <<>>

\* JSON.stringify(momentoArr): an array of strings
StringifyMomentoArr(arr) == StringifyArray([m \in 1..Len(arr) |-> StringifyString(arr[m])])

\* JSON.stringify(playerLocation): leaflet's LatLng has the members lat and lng
StringifyLatLng(loc) ==
    StringifyObject(<<Member("lat", <<NumToStr(loc.lat)>>), Member("lng", <<NumToStr(loc.lng)>>)>>)

\* storeMomentoArr (main.ts:360-363)
storeMomentoArr(storage, arr) == [storage EXCEPT !.momento = StringifyMomentoArr(arr)]

\* storePlayerLoc (main.ts:379-382)
storePlayerLoc(storage, loc) == [storage EXCEPT !.location = StringifyLatLng(loc)]

\* storePlayerCoins (main.ts:396-400) without its closing readPlayerLoc(), which the caller models
storePlayerCoins(storage, coins) == [storage EXCEPT !.coins = StringifyCoins(coins)]

\* A mutant of the assignments of readPlayerLoc: lat and lng are swapped
LocFromParsedSwapped(loc, parsedData) == [loc EXCEPT !.lat = parsedData.lng, !.lng = parsedData.lat]

\* playerLocation.lat = parsedData.lat; playerLocation.lng = parsedData.lng (main.ts:388-389)
LocFromParsed(loc, parsedData) == [loc EXCEPT !.lat = parsedData.lat, !.lng = parsedData.lng]

\* readPlayerLoc (main.ts:384-393): the player location after the call
readPlayerLoc(storage, loc) ==
    IF hasItem(storage.location) THEN LocFromParsed(loc, JSONparse(storage.location)) ELSE loc

\* The array JSON.parse makes of the stored coins
CoinsFromParsed(parsedData) ==
    <<>> \o [k \in 1..Len(parsedData) |->
                [i |-> parsedData[k].i, j |-> parsedData[k].j, serial |-> parsedData[k].serial]]

\* readPlayerCoins (main.ts:402-408): the player's coins after the call
readPlayerCoins(storage, coins) ==
    IF hasItem(storage.coins) THEN CoinsFromParsed(JSONparse(storage.coins)) ELSE coins

\* momentoArr = parsedCaches and the forEach of readMomentoData (main.ts:369-374)
MomentoFromParsed(caches, parsedCaches) ==
    [momentoArr |-> parsedCaches,
     geocacheArr |-> caches \o [m \in 1..Len(parsedCaches) |-> fromMomento(NewGeocache, parsedCaches[m])]]

\* readMomentoData (main.ts:365-376): momentoArr and geocacheArr after the call
readMomentoData(storage, arr, caches) ==
    IF hasItem(storage.momento) THEN MomentoFromParsed(caches, JSONparse(storage.momento))
    ELSE [momentoArr |-> arr, geocacheArr |-> caches]

\* A mutant of the end of updateMomento: storeMomentoArr() is not called
StoreUpdatedNoStore(storage, updated) == [momentoArr |-> updated, localStorage |-> storage]

\* storeMomentoArr() at the end of updateMomento (main.ts:355)
StoreUpdated(storage, updated) == [momentoArr |-> updated, localStorage |-> storeMomentoArr(storage, updated)]

\* updateMomento (main.ts:351-356): momentoArr and localStorage after the call
updateMomento(storage, arr, caches) == StoreUpdated(storage, AppendAll(arr, caches))

-----------------------------------------------------------------------------
(* main.ts: the markers.  A marker's popup closes over one Geocache        *)
(* object: either the object geocacheArr[arr] (arr > 0) or an object that  *)
(* only the marker holds (arr = 0, its fields in cache).                   *)

SharedMarker(arr) == [arr |-> arr, cache |-> NewGeocache]
OwnMarker(cache) == [arr |-> 0, cache |-> cache]
\* The Geocache object a marker's popup reads and writes
CacheOf(caches, marker) == IF marker.arr # 0 THEN caches[marker.arr] ELSE marker.cache

\* Writes the coins of the Geocache object of marker m
WithCoins(caches, markers, m, coins) ==
    IF markers[m].arr # 0
    THEN [geocacheArr |-> [caches EXCEPT ![markers[m].arr].coins = coins], cacheIconArray |-> markers]
    ELSE [geocacheArr |-> caches, cacheIconArray |-> [markers EXCEPT ![m].cache.coins = coins]]

\* mapBoard.getCellsNearPoint(origin) (main.ts:211) as main.ts reads it: the i and j of each cell.
\* The canonical cell of a literal has the literal's i and j.
CellsNear(origin) == <<>> \o NearLiterals(TILE_DEGREES, NEIGHBORHOOD_SIZE, origin)

\* The test of spawnCache (main.ts:213-215)
IsLucky(cell) == luck(KeyOf(cell.i, cell.j)) < CACHE_SPAWN_PROBABILITY

RECURSIVE SpawnLoop(_, _, _, _), SpawnNew(_, _, _, _), SpawnOne(_, _, _, _, _)
\* The forEach of spawnCache (main.ts:212-225) over the remaining lucky cells
SpawnLoop(cells, arr, caches, markers) ==
    IF cells = <<>> THEN [geocacheArr |-> caches, cacheIconArray |-> markers]
    ELSE SpawnOne(cells, arr, caches, markers, searchMomento(arr, Head(cells).i, Head(cells).j))
\* drawCache of the cache instantiateCache returned (main.ts:218-219): its marker shows the
\* cache just pushed, the last of geocacheArr
SpawnNew(cells, arr, markers, made) ==
    SpawnLoop(Tail(cells), arr, made.geocacheArr,
              Append(markers, SharedMarker(Len(made.geocacheArr))))
\* A mutant of the body of the forEach: the cache is instantiated whether or not it has a momento
SpawnOneAlwaysNew(cells, arr, caches, markers, momentoIdx) ==
    SpawnNew(cells, arr, markers, instantiateCache(caches, Head(cells).i, Head(cells).j))
\* The body of the forEach for one lucky cell (main.ts:216-223)
SpawnOne(cells, arr, caches, markers, momentoIdx) ==
    IF momentoIdx = 0
    THEN SpawnNew(cells, arr, markers, instantiateCache(caches, Head(cells).i, Head(cells).j))
    ELSE SpawnLoop(Tail(cells), arr, caches,
                   Append(markers, OwnMarker(fromMomento(NewGeocache, arr[momentoIdx]))))

\* A mutant of clearCacheMarker: cacheIconArray keeps its markers
clearCacheMarkerKeeps(markers) == markers

\* clearCacheMarker (main.ts:229-234): cacheIconArray.length = 0
clearCacheMarker(markers) == SubSeq(markers, 1, 0)

\* spawnCache (main.ts:208-226): geocacheArr and cacheIconArray after the call
spawnCache(origin, arr, caches, markers) == SpawnLoop(SelectSeq(CellsNear(origin), IsLucky), arr, caches, markers)

\* The listener once the momento array is updated: the respawn (main.ts:142-143)
RespawnAfter(loc, caches, markers, updated) ==
    [momentoArr |-> updated.momentoArr,
     localStorage |-> updated.localStorage,
     spawned |-> spawnCache(loc, updated.momentoArr, caches, clearCacheMarker(markers))]

\* The "player-moved" listener (main.ts:136-144) once playerLocation is loc
playerMovedListener(loc, storage, arr, caches, markers) ==
    RespawnAfter(loc, caches, markers, updateMomento(storePlayerLoc(storage, loc), arr, caches))

\* cacheValueChanged (main.ts:410-414) up to the stores: updateMomento, storeMomentoArr, storePlayerCoins
StoreCoinsAfter(updated, coins) ==
    [momentoArr |-> updated.momentoArr,
     localStorage |-> storePlayerCoins(storeMomentoArr(updated.localStorage, updated.momentoArr), coins)]
cacheValueChanged(storage, arr, caches, coins) == StoreCoinsAfter(updateMomento(storage, arr, caches), coins)

-----------------------------------------------------------------------------
(* The game: one action per event handler *)

\* No transfer has succeeded yet
NoHeld == <<>>
NoCall == [fn |-> "none"]
\* new Board(tileWidth, tileVisibilityRadius) (board.ts:13-17); held, requested and hit are history
NewBoard ==
    [knownCells |-> <<>>, held |-> {}, requested |-> {}, last |-> <<>>, hit |-> FALSE,
     fn |-> "none", point |-> OAKES_CLASSROOM]

Event(op, marker, transferred) == [op |-> op, marker |-> marker, transferred |-> transferred]

InWindow(loc) ==
    /\ loc.lat - OAKES_CLASSROOM.lat \in -(MaxStep * TILE_DEGREES)..(MaxStep * TILE_DEGREES)
    /\ loc.lng - OAKES_CLASSROOM.lng \in -MaxDrift..MaxDrift

\* The state after the first page load, with nothing stored (main.ts:98-122, 439-442)
Init ==
    /\ playerLocation = OAKES_CLASSROOM
    /\ playerCoins = <<>>
    /\ momentoArr = <<>>
    /\ \E spawned \in {spawnCache(OAKES_CLASSROOM, <<>>, <<>>, <<>>)} :
          /\ geocacheArr = spawned.geocacheArr
          /\ cacheIconArray = spawned.cacheIconArray
    /\ localStorage = NoStorage
    /\ watching = FALSE
    /\ lastEvent = Event("load", 0, null)
    /\ lastHeld = NoHeld
    /\ call = NoCall
    /\ board = NewBoard

\* The page is loaded again: the module body of main.ts runs in a new process
\* over the same localStorage: restoreData (main.ts:416-420), then spawnCache (main.ts:442)
Restart ==
    /\ \E read \in {readMomentoData(localStorage, <<>>, <<>>)},
          loc \in {readPlayerLoc(localStorage, OAKES_CLASSROOM)} :
          \E spawned \in {spawnCache(loc, read.momentoArr, read.geocacheArr, <<>>)} :
             /\ playerLocation' = loc
             /\ momentoArr' = read.momentoArr
             /\ geocacheArr' = spawned.geocacheArr
             /\ cacheIconArray' = spawned.cacheIconArray
    /\ playerCoins' = readPlayerCoins(localStorage, <<>>)
    /\ watching' = FALSE
    /\ lastEvent' = Event("load", 0, null)
    /\ UNCHANGED <<localStorage, lastHeld, call, board>>

\* document.dispatchEvent(playerMoved) with playerLocation set to loc
PlayerMoved(loc) ==
    /\ \E after \in {playerMovedListener(loc, localStorage, momentoArr, geocacheArr, cacheIconArray)} :
          /\ momentoArr' = after.momentoArr
          /\ localStorage' = after.localStorage
          /\ geocacheArr' = after.spawned.geocacheArr
          /\ cacheIconArray' = after.spawned.cacheIconArray
    /\ playerLocation' = loc
    /\ lastEvent' = Event("player-moved", 0, null)
    /\ UNCHANGED playerCoins

\* playerMoveTo (main.ts:147-150)
playerMoveTo(lat, lng) ==
    /\ InWindow(latLng(lat, lng))
    /\ PlayerMoved(latLng(lat, lng))
    /\ UNCHANGED <<watching, lastHeld, call, board>>

\* The movement buttons (main.ts:176-194)
North == playerMoveTo(playerLocation.lat + TILE_DEGREES, playerLocation.lng)
South == playerMoveTo(playerLocation.lat - TILE_DEGREES, playerLocation.lng)
West == playerMoveTo(playerLocation.lat, playerLocation.lng - TILE_DEGREES)
East == playerMoveTo(playerLocation.lat, playerLocation.lng + TILE_DEGREES)

\* The sensor button (main.ts:170-174): geoMoveTo(false) starts the watch and dispatches player-moved
Sensor ==
    /\ PlayerMoved(playerLocation)
    /\ watching' = TRUE
    /\ UNCHANGED <<lastHeld, call, board>>

\* The position the location watch reports: in the start's tile, off the start in both directions
GeoFixes == {latLng(OAKES_CLASSROOM.lat - 1, OAKES_CLASSROOM.lng - 1)}

\* The "locationfound" listener (main.ts:163-166)
LocationFound ==
    /\ watching
    /\ \E p \in GeoFixes : PlayerMoved(p)
    /\ UNCHANGED <<watching, lastHeld, call, board>>

\* The cache of marker m as lastHeld records it
Held(held, c) == Append(SelectSeq(held, LAMBDA h : ~(h.i = c.i /\ h.j = c.j)), c)

\* The branch of a popup handler after a transfer that succeeded (main.ts:292-297, 309-314):
\* the arrays are as the transfer left them, and cacheValueChanged runs; storePlayerCoins
\* ends with readPlayerLoc (main.ts:399)
TransferSucceeded(op, m, transferred, after, coins) ==
    /\ \E stored \in {cacheValueChanged(localStorage, momentoArr, after.geocacheArr, coins)} :
          /\ momentoArr' = stored.momentoArr
          /\ localStorage' = stored.localStorage
          /\ playerLocation' = readPlayerLoc(stored.localStorage, playerLocation)
    /\ geocacheArr' = after.geocacheArr
    /\ cacheIconArray' = after.cacheIconArray
    /\ playerCoins' = coins
    /\ lastEvent' = Event(op, m, transferred)
    /\ lastHeld' = Held(lastHeld, CacheOf(after.geocacheArr, after.cacheIconArray[m]))

\* The branch of a popup handler after a transfer that returned a falsy value: the alert (main.ts:298-300, 315-317).
\* The handler writes nothing; the arrays are as transferCoins left them.
TransferFailed(op, m, transferred, after, coins) ==
    /\ geocacheArr' = after.geocacheArr
    /\ cacheIconArray' = after.cacheIconArray
    /\ playerCoins' = coins
    /\ lastEvent' = Event(op, m, transferred)
    /\ UNCHANGED <<playerLocation, momentoArr, localStorage, lastHeld>>

\* The "collect" button of the popup of marker m (main.ts:287-301)
Collect(m) ==
    /\ \E cache \in {CacheOf(geocacheArr, cacheIconArray[m])} :
          /\ Len(cache.coins) = 0 \/ Len(playerCoins) < MaxCoins
          /\ \E t \in {transferCoins(cache.coins, playerCoins, 1)} :
                \E after \in {WithCoins(geocacheArr, cacheIconArray, m, t.sender)} :
                   IF Truthy(t.ret)
                   THEN TransferSucceeded("collect", m, t.ret, after, t.reciever)
                   ELSE TransferFailed("collect", m, t.ret, after, t.reciever)
    /\ UNCHANGED <<watching, call, board>>

\* The "deposit" button of the popup of marker m (main.ts:303-318)
Deposit(m) ==
    /\ \E cache \in {CacheOf(geocacheArr, cacheIconArray[m])} :
          /\ Len(playerCoins) = 0 \/ Len(cache.coins) < MaxCoins
          /\ \E t \in {transferCoins(playerCoins, cache.coins, 1)} :
                \E after \in {WithCoins(geocacheArr, cacheIconArray, m, t.reciever)} :
                   IF Truthy(t.ret)
                   THEN TransferSucceeded("deposit", m, t.ret, after, t.sender)
                   ELSE TransferFailed("deposit", m, t.ret, after, t.sender)
    /\ UNCHANGED <<watching, call, board>>

CollectAny == \E m \in 1..Len(cacheIconArray) : Collect(m)
DepositAny == \E m \in 1..Len(cacheIconArray) : Deposit(m)

\* The reset button, confirmed (main.ts:198-202), and resetGame (main.ts:422-432):
\* the listener runs with the player at the start, then localStorage is cleared
ResetGame ==
    /\ \E after \in {playerMovedListener(OAKES_CLASSROOM, localStorage, momentoArr, geocacheArr, cacheIconArray)} :
          /\ momentoArr' = after.momentoArr
          /\ geocacheArr' = after.spawned.geocacheArr
          /\ cacheIconArray' = after.spawned.cacheIconArray
    /\ playerLocation' = OAKES_CLASSROOM
    /\ localStorage' = NoStorage
    /\ lastEvent' = Event("reset", 0, null)
    /\ lastHeld' = NoHeld
    /\ UNCHANGED <<playerCoins, watching, call, board>>

Next ==
    \/ North
    \/ South
    \/ West
    \/ East
    \/ Sensor
    \/ LocationFound
    \/ CollectAny
    \/ DepositAny
    \/ ResetGame
    \/ Restart

\* The game: every event in any order
Spec == Init /\ [][Next]_vars

NextPlay ==
    \/ North
    \/ South
    \/ West
    \/ East
    \/ Sensor
    \/ LocationFound
    \/ CollectAny
    \/ DepositAny
    \/ Restart

\* Play without the reset button: moves, transfers and restarts
SpecPlay == Init /\ [][NextPlay]_vars

-----------------------------------------------------------------------------
(* Calls of single functions, on arguments drawn from small sets *)

\* Coins of the two lucky cells
TestCoins ==
    {[i |-> 8, j |-> -1, serial |-> 0], [i |-> 8, j |-> -1, serial |-> 1], [i |-> -9, j |-> -1, serial |-> 0]}
CoinArrays == SeqsUpTo(TestCoins, MaxLen)
\* Caches of three cells, each with any of the coin arrays
TestCaches ==
    {[i |-> c[1], j |-> c[2], coins |-> coins] : c \in {<<8, -1>>, <<-9, -1>>, <<0, 0>>}, coins \in CoinArrays}
\* Receivers of fromMomento: a new Geocache, or one that already has a cell and coins
Receivers == {NewGeocache} \cup {[i |-> 8, j |-> -1, coins |-> coins] : coins \in SeqsUpTo(TestCoins, 1)}
\* Cells around the origin, on both sides of zero
TestCells == {[i |-> i, j |-> j] : i \in -1..1, j \in -1..1}

\* transferCoins(sender, reciever, amt)
CallTransferCoins ==
    /\ call = NoCall
    /\ \E sender \in CoinArrays, reciever \in CoinArrays, amt \in 0..MaxAmt :
          call' = [fn |-> "transferCoins", sender |-> sender, reciever |-> reciever, amt |-> amt,
                   result |-> transferCoins(sender, reciever, amt)]
    /\ UNCHANGED <<gameVars, board>>

\* self.fromMomento(cache.toMomento())
CallFromMomento ==
    /\ call = NoCall
    /\ \E cache \in TestCaches, self \in Receivers :
          call' = [fn |-> "fromMomento", self |-> self, cache |-> cache, momento |-> toMomento(cache),
                   result |-> fromMomento(self, toMomento(cache))]
    /\ UNCHANGED <<gameVars, board>>

\* new Board(tileWidth, r).getCellBounds(cell)
CallGetCellBounds ==
    /\ call = NoCall
    /\ \E tileWidth \in 1..TILE_DEGREES, cell \in TestCells :
          call' = [fn |-> "getCellBounds", tileWidth |-> tileWidth, cell |-> cell,
                   result |-> getCellBounds(tileWidth, cell)]
    /\ UNCHANGED <<gameVars, board>>

\* The call record of two instantiateCache calls, the second on the array the first left
TwiceMade(i, j, first, second) ==
    [fn |-> "instantiateCache", i |-> i, j |-> j, before |-> Len(geocacheArr),
     result |-> first.ret, again |-> second.ret]

\* instantiateCache(i, j), twice: each call pushes its cache onto geocacheArr
CallInstantiateCache ==
    /\ call = NoCall
    /\ \E cell \in {[i |-> 8, j |-> -1], [i |-> -9, j |-> -1], [i |-> 0, j |-> 0], [i |-> -1, j |-> 1]} :
          \E first \in {instantiateCache(geocacheArr, cell.i, cell.j)} :
             \E second \in {instantiateCache(first.geocacheArr, cell.i, cell.j)} :
                /\ call' = TwiceMade(cell.i, cell.j, first, second)
                /\ geocacheArr' = second.geocacheArr
    /\ UNCHANGED <<playerLocation, playerCoins, momentoArr, cacheIconArray, localStorage,
                   watching, lastEvent, lastHeld, board>>

NextCalls ==
    \/ CallTransferCoins
    \/ CallFromMomento
    \/ CallGetCellBounds
    \/ CallInstantiateCache

\* One function-level call per behaviour, the game left at its first state
SpecCalls == Init /\ [][NextCalls]_vars

-----------------------------------------------------------------------------
(* One Board(TILE_DEGREES, MaxRadius) and a caller that keeps every cell   *)
(* it was given                                                            *)

\* Points of three tiles; the first two lie in the same tile
TestPoints == {latLng(1, -1), latLng(0, -2), latLng(3, -1), latLng(-1, 1)}

\* The (i,j) a point asks for
PointCell(tileWidth, point) == <<point.lat \div tileWidth, point.lng \div tileWidth>>
\* The (i,j) getCellsNearPoint asks for
NearRequested(tileWidth, radius, point) ==
    {PointCell(tileWidth, point)} \cup
    {<<l.i, l.j>> : l \in Range(<<>> \o NearLiterals(tileWidth, radius, point))}

\* The board after a call that returned cells, having asked for the pairs requested
Returned(fn, point, knownCells, cells, requested) ==
    [fn |-> fn, point |-> point,
     knownCells |-> knownCells,
     held |-> board.held \cup Range(cells),
     requested |-> board.requested \cup requested,
     last |-> cells,
     hit |-> \E c \in Range(cells) : c \in board.held]

\* mapBoard.getCellForPoint(point)
BoardGetCellForPoint ==
    /\ \E point \in TestPoints :
          \E got \in {getCellForPoint(TILE_DEGREES, board.knownCells, board.held, point)} :
             board' = Returned("getCellForPoint", point, got.knownCells, <<got.cell>>, {PointCell(TILE_DEGREES, point)})
    /\ UNCHANGED <<gameVars, call>>

\* mapBoard.getCellsNearPoint(point)
BoardGetCellsNearPoint ==
    /\ \E point \in TestPoints :
          \E got \in {getCellsNearPoint(TILE_DEGREES, MaxRadius, board.knownCells, board.held, point)} :
             board' = Returned("getCellsNearPoint", point, got.knownCells, got.cells, NearRequested(TILE_DEGREES, MaxRadius, point))
    /\ UNCHANGED <<gameVars, call>>

NextBoard ==
    \/ BoardGetCellForPoint
    \/ BoardGetCellsNearPoint

\* Calls on one Board, the game left at its first state
SpecBoard == Init /\ [][NextBoard]_vars

-----------------------------------------------------------------------------
(* The claims *)

\* The last handler was a collect or a deposit whose transfer succeeded
TransferJustSucceeded == lastEvent.op \in {"collect", "deposit"} /\ Truthy(lastEvent.transferred)
\* The cache the player interacted with in the last handler
Interacted == CacheOf(geocacheArr, cacheIconArray[lastEvent.marker])
\* The coins the snapshot of cell (i,j) in arr encodes
SnapshotCoins(arr, i, j) == fromMomento(NewGeocache, arr[searchMomento(arr, i, j)]).coins

\* C1: right after every successful collect or deposit, momentoArr has a snapshot of the
\* cell of the cache the player interacted with, and it encodes the coins that cache holds.
C1_SnapshotFollowsTransfer ==
    TransferJustSucceeded =>
        /\ searchMomento(momentoArr, Interacted.i, Interacted.j) # 0
        /\ SnapshotCoins(momentoArr, Interacted.i, Interacted.j) = Interacted.coins

\* C2: after a repopulation or a restart, every displayed cache holds the coins its cell's
\* displayed cache held after the last successful transfer on it.
C2_MutationSurvivesRedraw ==
    lastEvent.op \in {"player-moved", "load"} =>
        \A m \in 1..Len(cacheIconArray), h \in 1..Len(lastHeld) :
            (CacheOf(geocacheArr, cacheIconArray[m]).i = lastHeld[h].i
                /\ CacheOf(geocacheArr, cacheIconArray[m]).j = lastHeld[h].j)
            => CacheOf(geocacheArr, cacheIconArray[m]).coins = lastHeld[h].coins

\* The lucky cells the player can ever see
WorldCells == SelectSeq(<<>> \o NearLiterals(TILE_DEGREES, NEIGHBORHOOD_SIZE + MaxStep, OAKES_CLASSROOM), IsLucky)
\* The markers that show cell (i,j)
MarkersOf(i, j) ==
    {m \in 1..Len(cacheIconArray) :
        CacheOf(geocacheArr, cacheIconArray[m]).i = i /\ CacheOf(geocacheArr, cacheIconArray[m]).j = j}
\* The coins of the cache of cell (i,j) as it is displayed, or as spawnCache would display it
DisplayedCoins(i, j) ==
    IF MarkersOf(i, j) # {} THEN CacheOf(geocacheArr, cacheIconArray[CHOOSE m \in MarkersOf(i, j) : TRUE]).coins
    ELSE IF searchMomento(momentoArr, i, j) # 0 THEN SnapshotCoins(momentoArr, i, j)
    ELSE instantiateCache(geocacheArr, i, j).ret.coins
\* Every coin held by the player or by a cache
AllHeld == playerCoins \o Flatten([k \in 1..Len(WorldCells) |-> DisplayedCoins(WorldCells[k].i, WorldCells[k].j)])

\* C3: every coin created when a cache is instantiated is held exactly once among the
\* player's coins and the caches as displayed.
C3_CoinsConserved ==
    \A k \in 1..Len(WorldCells) :
        \A coin \in Range(instantiateCache(geocacheArr, WorldCells[k].i, WorldCells[k].j).ret.coins) :
            Count(AllHeld, coin) = 1

\* C4: a transferCoins call with sender.length >= amt shrinks the sender by amt coins
\* and grows the receiver by amt coins.
C4_TransferMovesAmount ==
    (call.fn = "transferCoins" /\ Len(call.sender) >= call.amt) =>
        /\ Len(call.result.sender) = Len(call.sender) - call.amt
        /\ Len(call.result.reciever) = Len(call.reciever) + call.amt

\* C5: every transferCoins call leaves the number of elements of sender plus receiver as it was.
C5_TransferConserves ==
    call.fn = "transferCoins" =>
        Len(call.result.sender) + Len(call.result.reciever) = Len(call.sender) + Len(call.reciever)

\* transferCoins from sender to reciever fails for every amount above the sender's length
FailsWhenShort(sender, reciever) ==
    \A amt \in 0..MaxAmt :
        amt > Len(sender) =>
            transferCoins(sender, reciever, amt) = [ret |-> null, sender |-> sender, reciever |-> reciever]
\* On the arrays of every displayed cache and the player, in both directions
C6_FunctionPart ==
    \A m \in 1..Len(cacheIconArray) :
        /\ FailsWhenShort(CacheOf(geocacheArr, cacheIconArray[m]).coins, playerCoins)
        /\ FailsWhenShort(playerCoins, CacheOf(geocacheArr, cacheIconArray[m]).coins)
\* A step of a collect handler on an empty cache, or of a deposit handler with no coins
ShortTransferStep ==
    \/ lastEvent'.op = "collect" /\ CacheOf(geocacheArr, cacheIconArray[lastEvent'.marker]).coins = <<>>
    \/ lastEvent'.op = "deposit" /\ playerCoins = <<>>
C6_HandlerPart ==
    ShortTransferStep =>
        /\ lastEvent'.transferred = null
        /\ UNCHANGED <<playerLocation, playerCoins, geocacheArr, momentoArr, cacheIconArray, localStorage>>

\* C6: a transfer asking for more coins than the sender holds returns null and leaves both
\* arrays as they were, and the collect or deposit handler then changes neither momentoArr
\* nor localStorage; collecting from an empty cache leaves cache and player's coins unchanged.
C6_FailedTransferNoMutation == []C6_FunctionPart /\ [][C6_HandlerPart]_vars

\* A collect on an empty cache has just failed while the player holds a coin
C6_Witness ==
    /\ lastEvent.op = "collect"
    /\ lastEvent.transferred = null
    /\ CacheOf(geocacheArr, cacheIconArray[lastEvent.marker]).coins = <<>>
    /\ playerCoins # <<>>
    /\ momentoArr # <<>>

\* C7: a Geocache loaded with fromMomento(c.toMomento()) has the i, j and coins of c,
\* whatever the receiver held before.
C7_MomentoRoundTrip ==
    call.fn = "fromMomento" =>
        /\ call.result.i = call.cache.i
        /\ call.result.j = call.cache.j
        /\ call.result.coins = call.cache.coins

\* A cache of two coins, one of another cell, loaded into a receiver that held a coin
C7_Witness ==
    /\ call.fn = "fromMomento"
    /\ call.self.coins # <<>>
    /\ Len(call.cache.coins) >= 2
    /\ \E k \in 1..Len(call.cache.coins) : call.cache.coins[k].i # call.cache.i
    /\ call.cache.coins # call.self.coins
    /\ call.result.coins = call.cache.coins

\* The momentos of arr for cell (i,j)
MomentosOf(arr, i, j) == {m \in 1..Len(arr) : IsCell(JSONparse(arr[m]), i, j)}
\* The momentos of arr for the other cells, in order
OtherMomentos(arr, i, j) == SelectSeq(arr, LAMBDA momento : ~IsCell(JSONparse(momento), i, j))
\* Every Geocache object of the program: those of geocacheArr and those of the markers
LiveCaches == Range(geocacheArr) \cup {CacheOf(geocacheArr, cacheIconArray[m]) : m \in 1..Len(cacheIconArray)}
AtMostOnePerCell(arr) ==
    \A m \in 1..Len(arr) : Cardinality(MomentosOf(arr, JSONparse(arr[m]).i, JSONparse(arr[m]).j)) = 1
Upserted(arr, cache, after) ==
    /\ Cardinality(MomentosOf(after, cache.i, cache.j)) = 1
    /\ after[searchMomento(after, cache.i, cache.j)] = toMomento(cache)
    /\ OtherMomentos(after, cache.i, cache.j) = OtherMomentos(arr, cache.i, cache.j)

\* C8: momentoArr holds at most one snapshot per cell, and appendToMomento(cache) leaves one
\* snapshot for the cache's cell, the one just written, and the other cells' snapshots as they were.
C8_UpsertReplace ==
    /\ AtMostOnePerCell(momentoArr)
    /\ \A cache \in LiveCaches : Upserted(momentoArr, cache, appendToMomento(momentoArr, cache))

\* Two cells have snapshots, and a displayed cache differs from its cell's snapshot
C8_Witness ==
    /\ Len(momentoArr) >= 2
    /\ \E cache \in LiveCaches :
          /\ searchMomento(momentoArr, cache.i, cache.j) # 0
          /\ momentoArr[searchMomento(momentoArr, cache.i, cache.j)] # toMomento(cache)

\* Cells with equal (i,j) given to the caller are one object, and the table has one entry,
\* under its key, per pair requested
C9_Identity ==
    /\ \A c1 \in board.held, c2 \in board.held : (c1.i = c2.i /\ c1.j = c2.j) => c1.id = c2.id
    /\ {<<board.knownCells[k].cell.i, board.knownCells[k].cell.j>> : k \in 1..Len(board.knownCells)} = board.requested
    /\ Len(board.knownCells) = Cardinality(board.requested)
    /\ \A k \in 1..Len(board.knownCells) :
          board.knownCells[k].key = KeyOf(board.knownCells[k].cell.i, board.knownCells[k].cell.j)
\* Every entry of the table stays where it is, with the object it has
C9_EntriesKept ==
    /\ Len(board'.knownCells) >= Len(board.knownCells)
    /\ \A k \in 1..Len(board.knownCells) : board'.knownCells[k] = board.knownCells[k]

\* C9: over any sequence of getCellForPoint and getCellsNearPoint calls on one Board, returned
\* cells with equal (i,j) are the same object, the table has exactly one entry per (i,j)
\* requested, and no entry is lost or replaced.
C9_FlyweightIdentity == []C9_Identity /\ [][C9_EntriesKept]_vars

\* The last call returned an object the caller already held, and the table has several entries
C9_Witness ==
    /\ board.hit
    /\ Len(board.knownCells) >= 2
    /\ Cardinality(board.held) >= 2

\* C10: getCellBounds(cell) is the rectangle from (i*tileWidth, j*tileWidth) to
\* ((i+1)*tileWidth, (j+1)*tileWidth).
C10_CellBoundsRectangle ==
    call.fn = "getCellBounds" =>
        call.result = [southWest |-> latLng(call.cell.i * call.tileWidth, call.cell.j * call.tileWidth),
                       northEast |-> latLng((call.cell.i + 1) * call.tileWidth, (call.cell.j + 1) * call.tileWidth)]

\* The side of the square of cells getCellsNearPoint visits
Side == 2 * MaxRadius + 1

\* C11: getCellsNearPoint on a Board of radius r, for a point of cell (i,j), returns (2r+1)^2
\* pairwise distinct cells, the cells (i+di, j+dj) for di, dj in -r..r, di outer and dj inner,
\* both ascending; 9 cells when r = 1.
C11_CellsNearPoint ==
    board.fn = "getCellsNearPoint" =>
        /\ Len(board.last) = Side * Side
        /\ MaxRadius = 1 => Len(board.last) = 9
        /\ \A k \in 1..Len(board.last) :
              /\ board.last[k].i = PointCell(TILE_DEGREES, board.point)[1] + ((k - 1) \div Side) - MaxRadius
              /\ board.last[k].j = PointCell(TILE_DEGREES, board.point)[2] + ((k - 1) % Side) - MaxRadius
        /\ \A k1 \in 1..Len(board.last), k2 \in 1..Len(board.last) :
              k1 # k2 => (board.last[k1].id # board.last[k2].id /\ board.last[k1] # board.last[k2])

\* A call for a point with a negative longitude and off the tile's corner, on a Board
\* that already had some of the cells
C11_Witness ==
    /\ board.fn = "getCellsNearPoint"
    /\ board.point = latLng(-1, 1)
    /\ board.hit
    /\ Len(board.last) = Side * Side
    /\ Len(board.knownCells) > Side * Side

\* C12: instantiateCache(i,j) yields a cache of cell (i,j) with floor(luck("i,j,initialValue")*100)
\* coins, each of cell (i,j), with the serials 0..count-1 in ascending order; a second
\* instantiation of the cell yields the same coins.
C12_InstantiateDeterministic ==
    call.fn = "instantiateCache" =>
        /\ call.result.i = call.i
        /\ call.result.j = call.j
        /\ Len(call.result.coins) * LuckScale <= luck(InitialValueKeyOf(call.i, call.j)) * 100
        /\ (Len(call.result.coins) + 1) * LuckScale > luck(InitialValueKeyOf(call.i, call.j)) * 100
        /\ \A k \in 1..Len(call.result.coins) :
              call.result.coins[k] = [i |-> call.i, j |-> call.j, serial |-> k - 1]
        /\ call.again.coins = call.result.coins

\* A cell with a negative index whose cache starts with several coins, instantiated twice:
\* geocacheArr has both caches
C12_Witness ==
    /\ call.fn = "instantiateCache"
    /\ call.i < 0
    /\ Len(call.result.coins) >= 2
    /\ Len(geocacheArr) = call.before + 2
    /\ geocacheArr[Len(geocacheArr)] = call.again

\* C13: a successful transfer of one coin moves the last element of the sender to the end of
\* the receiver and returns it, with its i, j and serial, and leaves every other coin of both
\* arrays where it was.
C13_MovesLastToEnd ==
    (call.fn = "transferCoins" /\ call.amt = 1 /\ Truthy(call.result.ret)) =>
        /\ call.sender # <<>>
        /\ call.result.ret = call.sender[Len(call.sender)]
        /\ call.result.sender = SubSeq(call.sender, 1, Len(call.sender) - 1)
        /\ call.result.reciever = call.reciever \o <<call.sender[Len(call.sender)]>>

\* Two different coins in the sender, and a receiver that holds a coin of another cell
C13_Witness ==
    /\ call.fn = "transferCoins"
    /\ call.amt = 1
    /\ Len(call.sender) = 2
    /\ call.sender[1] # call.sender[2]
    /\ call.reciever # <<>>
    /\ call.reciever[1].i # call.sender[2].i
    /\ call.result.ret = call.sender[2]

\* The cells within the visibility radius of the cell of point whose luck is below the spawn probability
LuckyNear(point) ==
    {cell \in {[i |-> PointCell(TILE_DEGREES, point)[1] + di, j |-> PointCell(TILE_DEGREES, point)[2] + dj] :
                  di \in -NEIGHBORHOOD_SIZE..NEIGHBORHOOD_SIZE, dj \in -NEIGHBORHOOD_SIZE..NEIGHBORHOOD_SIZE} :
        luck(KeyOf(cell.i, cell.j)) < CACHE_SPAWN_PROBABILITY}
\* The cell each marker is displayed for
MarkerCells ==
    [m \in 1..Len(cacheIconArray) |->
        [i |-> CacheOf(geocacheArr, cacheIconArray[m]).i, j |-> CacheOf(geocacheArr, cacheIconArray[m]).j]]

\* C14: after startup and after every player-moved event, there is exactly one marker for each
\* lucky cell within the visibility radius of the player's position, and no other marker.
C14_MarkersAreLuckyNear ==
    lastEvent.op \in {"load", "player-moved", "reset"} =>
        /\ Range(MarkerCells) = LuckyNear(playerLocation)
        /\ Len(cacheIconArray) = Cardinality(LuckyNear(playerLocation))

\* The player has moved to a position from which a cell displayed before is out of reach
\* and another one is displayed
C14_Witness ==
    /\ lastEvent.op = "player-moved"
    /\ LuckyNear(playerLocation) # LuckyNear(OAKES_CLASSROOM)
    /\ cacheIconArray # <<>>
    /\ momentoArr # <<>>

\* No two caches of geocacheArr have the same cell
NoDuplicateCells ==
    \A k1 \in 1..Len(geocacheArr), k2 \in 1..Len(geocacheArr) :
        (geocacheArr[k1].i = geocacheArr[k2].i /\ geocacheArr[k1].j = geocacheArr[k2].j) => k1 = k2
\* The caches a step has instantiated: at a page load those after the ones read from
\* the momentos, in a handler those pushed onto geocacheArr
Instantiated ==
    IF lastEvent'.op = "load" THEN (Len(momentoArr') + 1)..Len(geocacheArr')
    ELSE (Len(geocacheArr) + 1)..Len(geocacheArr')
\* Every cache a step instantiates is of a cell without a momento
InstantiatedWithoutMomento ==
    \A k \in Instantiated : searchMomento(momentoArr', geocacheArr'[k].i, geocacheArr'[k].j) = 0

\* C15: instantiateCache is called for a cell only when momentoArr has no momento of it, and
\* geocacheArr never holds two caches of the same cell, under any moves, transfers and resets.
C15_InstantiatedOncePerCell == []NoDuplicateCells /\ [][InstantiatedWithoutMomento]_vars

\* After a move, one cell is redisplayed from its momento and both lucky cells are known
C15_Witness ==
    /\ lastEvent.op = "player-moved"
    /\ Len(geocacheArr) >= 2
    /\ Len(momentoArr) >= 2
    /\ \E m \in 1..Len(cacheIconArray) : cacheIconArray[m].arr = 0

\* The momento of arr at m is of a cache as instantiateCache makes it
Unmutated(arr, m) ==
    fromMomento(NewGeocache, arr[m]).coins =
        instantiateCache(geocacheArr, fromMomento(NewGeocache, arr[m]).i, fromMomento(NewGeocache, arr[m]).j).ret.coins

\* C16: once a reset has run, the previous game is gone: the player has no coins, momentoArr
\* has no momento of a mutated cache, and storage is empty, so that nothing of the game
\* before the reset can reach storage again.
C16_ResetWipesGame ==
    lastEvent.op = "reset" =>
        /\ playerCoins = <<>>
        /\ \A m \in 1..Len(momentoArr) : Unmutated(momentoArr, m)
        /\ localStorage = NoStorage

\* C17: after every handler, each item present in localStorage is the serialization of its
\* counterpart in memory: "momento data" of momentoArr, "Player Coins" of playerCoins and
\* "Player Location" of playerLocation.
C17_StorageMirrorsMemory ==
    /\ hasItem(localStorage.momento) => localStorage.momento = StringifyMomentoArr(momentoArr)
    /\ hasItem(localStorage.coins) => localStorage.coins = StringifyCoins(playerCoins)
    /\ hasItem(localStorage.location) => localStorage.location = StringifyLatLng(playerLocation)

\* All three items are stored, the player holds a coin away from the start and two cells have momentos
C17_Witness ==
    /\ hasItem(localStorage.momento)
    /\ hasItem(localStorage.coins)
    /\ hasItem(localStorage.location)
    /\ playerCoins # <<>>
    /\ playerLocation # OAKES_CLASSROOM
    /\ Len(momentoArr) >= 2

\* C18: a collect or a deposit leaves the player's position as it was, in every reachable
\* state, also after a restart or a reset.
C18_TransferKeepsPosition ==
    [][lastEvent'.op \in {"collect", "deposit"} => playerLocation' = playerLocation]_vars

\* A transfer has succeeded, away from the start, with a stored location that readPlayerLoc read back
C18_Witness ==
    /\ lastEvent.op \in {"collect", "deposit"}
    /\ Truthy(lastEvent.transferred)
    /\ hasItem(localStorage.location)
    /\ hasItem(localStorage.coins)
    /\ playerLocation # OAKES_CLASSROOM

====
